---- MODULE Spec2Model ----
(***************************************************************************)
(* Model of fritzconnection/lib/fritzhosts.py: the FritzHosts library      *)
(* class (index-walk enumeration of the host list, status lookup by MAC,   *)
(* mesh topology fetch, host list via the XML feed) and the _Host /        *)
(* _HostStorage node processors.                                           *)
(***************************************************************************)
EXTENDS Integers, Sequences, FiniteSets, TLC

VARIABLES
    \* ---- the device behind fc.call_action (fixed during a behaviour)
    hosts,      \* the device's host table: sequence of GetGenericHostEntry results
    failAt,     \* index at which the device answers with failKind
    failKind,   \* the exception raised at failAt, "none": the device never fails
    \* ---- one enumeration (get_generic_host_entries / get_hosts_info / get_active_hosts)
    mode,       \* "idle", "raw", "info", "active": which method is running
    index,      \* the loop variable of itertools.count()
    result,     \* get_hosts_info's local list
    delivered,  \* what the caller has received so far (yielded items or returned list)
    outcome,    \* "none", "running", "done" (returned / StopIteration), "raised"
    error,      \* the exception that left the method, "none" otherwise
    fetched,    \* indices of the get_generic_host_entry calls of this enumeration
    pulls,      \* next() calls made on the generator of this enumeration
    lastInfo,   \* list returned by the last completed get_hosts_info, NoList before
    \* ---- one _Host instance
    hnode,      \* the Item node it was built from: sequence of [tag, text] children
    hdict,      \* its __dict__, in insertion order: sequence of [name, value]
    hread,      \* [name, value] of the attribute read, if that was the latest operation
    hsnap,      \* outcome of attributes(), if that was the latest operation
    hfirst,     \* outcome of the first attributes() call on the instance
    \* ---- get_hosts_attributes
    document,   \* the XML document behind the host list path: sequence of nodes
    listing,    \* outcome of the latest get_hosts_attributes call
    \* ---- get_host_status
    answers,    \* the device's answer to GetSpecificHostEntry, per MAC address
    status,     \* outcome of the latest get_host_status call
    \* ---- get_mesh_topology
    mpc,        \* "idle", "called" (action call made), "done"
    mraw,       \* the raw argument of the running call
    mpath,      \* NewX_AVM-DE_MeshListPath as returned by the action call
    mlog,       \* requests made by the running call, in order
    mresponse,  \* the HTTP response received
    mresult     \* outcome of the call

enumVars == <<mode, index, result, delivered, outcome, error, fetched, pulls, lastInfo>>
deviceVars == <<hosts, failAt, failKind>>
hostVars == <<hnode, hdict, hread, hsnap, hfirst>>
storageVars == <<document, listing>>
statusVars == <<answers, status>>
meshVars == <<mpc, mraw, mpath, mlog, mresponse, mresult>>
vars == <<deviceVars, enumVars, hostVars, storageVars, statusVars, meshVars>>
otherVars == <<hostVars, storageVars, statusVars, meshVars>>

(***************************************************************************)
(* Bounds                                                                  *)
(***************************************************************************)
MaxHosts == 3
MaxChildren == 2
MaxReads == 2
MaxNodes == 3
NumMacs == 3

NoList == "NoList"

(***************************************************************************)
(* Exceptions (imports, lines 12-16, and the builtins the code names)      *)
(***************************************************************************)
IndexError == "IndexError"
KeyError == "KeyError"
FritzActionError == "FritzActionError"
FritzArgumentError == "FritzArgumentError"
FritzLookUpError == "FritzLookUpError"

\* failures of call_action other than the out-of-range signal
ActionFailures == {FritzArgumentError, FritzLookUpError, FritzActionError}

(***************************************************************************)
(* GetGenericHostEntry results                                             *)
(***************************************************************************)
MacAddresses == {"AA:00:00:00:00:01", "AA:00:00:00:00:02"}

IpOf(mac) == IF mac = "AA:00:00:00:00:01" THEN "192.168.178.21" ELSE "192.168.178.22"

NameOf(mac) == IF mac = "AA:00:00:00:00:01" THEN "printer" ELSE "laptop"

HostEntry(mac, active) ==
    [NewIPAddress |-> IpOf(mac),
     NewAddressSource |-> "DHCP",
     NewLeaseTimeRemaining |-> 0,
     NewMACAddress |-> mac,
     NewInterfaceType |-> "Ethernet",
     NewActive |-> active,
     NewHostName |-> NameOf(mac)]

\* an entry whose NewActive out-argument was never populated
HostEntryNoActive(mac) ==
    [NewIPAddress |-> IpOf(mac),
     NewAddressSource |-> "DHCP",
     NewLeaseTimeRemaining |-> 0,
     NewMACAddress |-> mac,
     NewInterfaceType |-> "Ethernet",
     NewHostName |-> NameOf(mac)]

CompleteEntries == {HostEntry(m, a) : m \in MacAddresses, a \in BOOLEAN}
PartialEntries == {HostEntryNoActive(m) : m \in MacAddresses}

SeqsUpTo(S, n) == UNION {[1..k -> S] : k \in 0..n}

(***************************************************************************)
(* get_generic_host_entry(index), lines 48-54: the action call.  The       *)
(* device answers IndexError beyond its table and failKind at failAt.      *)
(***************************************************************************)
Fails == failKind # "none"

get_generic_host_entry(i) ==
    IF Fails /\ i = failAt THEN [ok |-> FALSE, exc |-> failKind]
    ELSE IF i < Len(hosts) THEN [ok |-> TRUE, value |-> hosts[i + 1]]
    ELSE [ok |-> FALSE, exc |-> IndexError]

\* "except IndexError", lines 65 and 114
CaughtByLoop_Any(exc) == TRUE

CaughtByLoop(exc) == exc = IndexError

\* itertools.count(): first value and successor, lines 62 and 111
CountStart_Stale == index

CountStart == 0

CountNext(i) == i + 1

(***************************************************************************)
(* The dict literal of get_hosts_info, lines 118-126: subscripting a       *)
(* missing key raises KeyError.                                            *)
(***************************************************************************)
InfoKeys == {"NewIPAddress", "NewHostName", "NewMACAddress", "NewActive",
             "NewInterfaceType", "NewAddressSource", "NewLeaseTimeRemaining"}

HasInfoKeys(host) == InfoKeys \subseteq DOMAIN host

HostRecord_NameFromMac(host) ==
    [ip |-> host["NewIPAddress"],
     name |-> host["NewMACAddress"],
     mac |-> host["NewMACAddress"],
     status |-> host["NewActive"],
     interface_type |-> host["NewInterfaceType"],
     address_source |-> host["NewAddressSource"],
     lease_time_remaining |-> host["NewLeaseTimeRemaining"]]

HostRecord(host) ==
    [ip |-> host["NewIPAddress"],
     name |-> host["NewHostName"],
     mac |-> host["NewMACAddress"],
     status |-> host["NewActive"],
     interface_type |-> host["NewInterfaceType"],
     address_source |-> host["NewAddressSource"],
     lease_time_remaining |-> host["NewLeaseTimeRemaining"]]

\* the filter of get_active_hosts, line 102
IsActive_Inverted(host) == host["status"] = FALSE

IsActive(host) == host["status"] = TRUE

ActiveOnly(list) == SelectSeq(list, IsActive)

(***************************************************************************)
(* Enumerations                                                            *)
(***************************************************************************)
Begin(m) ==
    /\ mode = "idle"
    /\ mode' = m
    /\ index' = CountStart
    /\ result' = <<>>
    /\ delivered' = <<>>
    /\ outcome' = "running"
    /\ error' = "none"
    /\ fetched' = <<>>
    /\ pulls' = 0
    /\ UNCHANGED <<lastInfo, deviceVars, otherVars>>

\* get_generic_host_entries(): calling the generator function runs no code yet
StartRaw == Begin("raw")

\* get_hosts_info(), line 110
StartInfo == Begin("info")

\* get_active_hosts(), line 102: runs get_hosts_info()
StartActive == Begin("active")

\* next() on the generator while it is suspended: one pass of lines 62-66
NextRaw ==
    /\ mode = "raw"
    /\ outcome = "running"
    /\ LET r == get_generic_host_entry(index) IN
        /\ fetched' = Append(fetched, index)
        /\ pulls' = pulls + 1
        /\ IF r.ok
           THEN /\ delivered' = Append(delivered, r.value)
                /\ index' = CountNext(index)
                /\ UNCHANGED <<outcome, error>>
           ELSE IF CaughtByLoop(r.exc)
           THEN /\ outcome' = "done"
                /\ UNCHANGED <<delivered, index, error>>
           ELSE /\ outcome' = "raised"
                /\ error' = r.exc
                /\ UNCHANGED <<delivered, index>>
    /\ UNCHANGED <<mode, result, lastInfo, deviceVars, otherVars>>

\* next() on a generator that returned or raised: StopIteration, no code runs
NextRawFinished ==
    /\ mode = "raw"
    /\ outcome \in {"done", "raised"}
    /\ pulls < MaxHosts + 2
    /\ pulls' = pulls + 1
    /\ UNCHANGED <<mode, index, result, delivered, outcome, error, fetched,
                   lastInfo, deviceVars, otherVars>>

\* what get_hosts_info / get_active_hosts hand back on return, lines 128 and 102
Returned(m, list) == IF m = "active" THEN ActiveOnly(list) ELSE list

\* one pass of the loop of get_hosts_info, lines 111-128
InfoStep ==
    /\ mode \in {"info", "active"}
    /\ outcome = "running"
    /\ LET r == get_generic_host_entry(index) IN
        /\ fetched' = Append(fetched, index)
        /\ IF r.ok
           THEN IF HasInfoKeys(r.value)
                THEN /\ result' = Append(result, HostRecord(r.value))
                     /\ index' = CountNext(index)
                     /\ UNCHANGED <<delivered, outcome, error, lastInfo>>
                ELSE /\ outcome' = "raised"
                     /\ error' = KeyError
                     /\ UNCHANGED <<result, index, delivered, lastInfo>>
           ELSE IF CaughtByLoop(r.exc)
           THEN /\ outcome' = "done"
                /\ delivered' = Returned(mode, result)
                /\ lastInfo' = IF mode = "info" THEN result ELSE lastInfo
                /\ UNCHANGED <<result, index, error>>
           ELSE /\ outcome' = "raised"
                /\ error' = r.exc
                /\ UNCHANGED <<result, index, delivered, lastInfo>>
    /\ UNCHANGED <<mode, pulls, deviceVars, otherVars>>

\* the caller is done with the enumeration: the method has returned or raised,
\* or the consumer stops pulling from the lazy generator
Finish ==
    /\ mode # "idle"
    /\ mode = "raw" \/ outcome # "running"
    /\ mode' = "idle"
    /\ UNCHANGED <<index, result, delivered, outcome, error, fetched, pulls,
                   lastInfo, deviceVars, otherVars>>

(***************************************************************************)
(* Python values: None, str (as a sequence of characters), int, bool       *)
(***************************************************************************)
None == [kind |-> "None", text |-> <<>>, num |-> 0]
Str(t) == [kind |-> "str", text |-> t, num |-> 0]
PyInt(n) == [kind |-> "int", text |-> <<>>, num |-> n]
PyBool(b) == [kind |-> "bool", text |-> <<>>, num |-> IF b THEN 1 ELSE 0]

ValueError == "ValueError"
TypeError == "TypeError"

Digits == {"0", "1", "2", "3", "4", "5", "6", "7", "8", "9"}

DigitValue(c) ==
    CASE c = "0" -> 0 [] c = "1" -> 1 [] c = "2" -> 2 [] c = "3" -> 3
      [] c = "4" -> 4 [] c = "5" -> 5 [] c = "6" -> 6 [] c = "7" -> 7
      [] c = "8" -> 8 [] c = "9" -> 9

RECURSIVE StripLeft(_)
StripLeft(t) == IF t # <<>> /\ Head(t) = " " THEN StripLeft(Tail(t)) ELSE t

RECURSIVE StripRight(_)
StripRight(t) ==
    IF t # <<>> /\ t[Len(t)] = " " THEN StripRight(SubSeq(t, 1, Len(t) - 1)) ELSE t

RECURSIVE DecimalValue(_)
DecimalValue(ds) ==
    IF ds = <<>> THEN 0
    ELSE 10 * DecimalValue(SubSeq(ds, 1, Len(ds) - 1)) + DigitValue(ds[Len(ds)])

\* int(value), lines 249 and 251: TypeError for None; for a str, surrounding
\* whitespace is dropped, one sign is allowed, the rest must be decimal digits
int(value) ==
    IF value.kind = "None" THEN [ok |-> FALSE, exc |-> TypeError, num |-> 0]
    ELSE LET s == StripRight(StripLeft(value.text))
             signed == s # <<>> /\ Head(s) \in {"+", "-"}
             ds == IF signed THEN Tail(s) ELSE s
         IN IF ds = <<>> \/ \E i \in 1..Len(ds) : ds[i] \notin Digits
            THEN [ok |-> FALSE, exc |-> ValueError, num |-> 0]
            ELSE [ok |-> TRUE, exc |-> "none",
                  num |-> IF signed /\ Head(s) = "-" THEN 0 - DecimalValue(ds)
                          ELSE DecimalValue(ds)]

(***************************************************************************)
(* _Host, lines 216-254                                                    *)
(***************************************************************************)
int_values == {"Index", "X_AVM-DE_Port", "X_AVM-DE_Speed"}

bool_values_NoGuest ==
    {"Active", "X_AVM-DE_UpdateAvailable", "X_AVM-DE_VPN", "X_AVM-DE_Disallow"}

bool_values ==
    {"Active", "X_AVM-DE_UpdateAvailable", "X_AVM-DE_Guest", "X_AVM-DE_VPN",
     "X_AVM-DE_Disallow"}

\* the instance __dict__ as an insertion-ordered mapping
DictNames(d) == {d[i].name : i \in 1..Len(d)}
DictHas(d, n) == n \in DictNames(d)
DictGet(d, n) == d[CHOOSE i \in 1..Len(d) : d[i].name = n].value
DictSet(d, n, v) ==
    IF DictHas(d, n)
    THEN [i \in 1..Len(d) |-> IF d[i].name = n THEN [name |-> n, value |-> v] ELSE d[i]]
    ELSE Append(d, [name |-> n, value |-> v])

\* getattr(host, name): the normal lookup finds a name of __dict__; otherwise
\* __getattr__ (lines 229-232) sets the attribute to None and returns it.
\* The pair is the instance __dict__ afterwards and the value returned.
Host_getattr(d, n) ==
    IF DictHas(d, n)
    THEN [dict |-> d, value |-> DictGet(d, n)]
    ELSE LET d1 == DictSet(d, n, None) IN [dict |-> d1, value |-> DictGet(d1, n)]

\* process_node on a _Host: every child's text becomes the attribute named
\* by the child's tag
RECURSIVE process_host_node(_, _)
process_host_node(d, children) ==
    IF children = <<>> THEN d
    ELSE LET c == Head(children)
             d1 == Host_getattr(d, c.tag).dict
         IN process_host_node(DictSet(d1, c.tag, Str(c.text)), Tail(children))

\* one pass of the loop of attributes, lines 248-253
Convert(name, value) ==
    IF name \in int_values
    THEN LET r == int(value) IN
         IF r.ok THEN [ok |-> TRUE, exc |-> "none", value |-> PyInt(r.num)]
         ELSE [ok |-> FALSE, exc |-> r.exc, value |-> None]
    ELSE IF name \in bool_values
    THEN LET r == int(value) IN
         IF r.ok THEN [ok |-> TRUE, exc |-> "none", value |-> PyBool(r.num # 0)]
         ELSE [ok |-> FALSE, exc |-> r.exc, value |-> None]
    ELSE [ok |-> TRUE, exc |-> "none", value |-> value]

EmptyDict == [n \in {} |-> None]

\* attributes, lines 239-254: the items of __dict__ in insertion order; the
\* first conversion that fails leaves the property with its exception
RECURSIVE AttributesFrom(_, _, _)
AttributesFrom(d, i, attrs) ==
    IF i > Len(d) THEN [ok |-> TRUE, exc |-> "none", attrs |-> attrs]
    ELSE LET c == Convert(d[i].name, d[i].value) IN
         IF c.ok THEN AttributesFrom(d, i + 1, (d[i].name :> c.value) @@ attrs)
         ELSE [ok |-> FALSE, exc |-> c.exc, attrs |-> EmptyDict]

attributes(d) == AttributesFrom(d, 1, EmptyDict)

NoRead == [name |-> "", value |-> None]
NoSnap == [ok |-> FALSE, exc |-> "NoSnap", attrs |-> EmptyDict]

\* texts of child nodes
Text1 == <<"1">>
Text0 == <<"0">>
Text42 == <<"4", "2">>
TextMaybe == <<"m", "a", "y", "b", "e">>
TextEmpty == <<>>
TextPc == <<"p", "c">>
TextMinus3 == <<"-", "3">>
TextPadded7 == <<" ", "7", " ">>

\* names of the children of the node, i.e. the attributes the node populated
Populated(node) == {node[i].tag : i \in 1..Len(node)}

\* names read on the instance that the node never populated
QueriedOnly == DictNames(hdict) \ Populated(hnode)

ProbeNames == {"Index", "X_AVM-DE_Speed", "X_AVM-DE_Guest", "HostName", "Comment"}

\* reading host.<name>
ReadAttribute(n) ==
    /\ DictHas(hdict, n) \/ Cardinality(QueriedOnly) < MaxReads
    /\ LET r == Host_getattr(hdict, n) IN
        /\ hdict' = r.dict
        /\ hread' = [name |-> n, value |-> r.value]
    /\ hsnap' = NoSnap
    /\ UNCHANGED <<hnode, hfirst>>
    /\ UNCHANGED <<deviceVars, enumVars, storageVars, statusVars, meshVars>>

\* reading host.attributes
ReadAttributes ==
    /\ hsnap' = attributes(hdict)
    /\ hfirst' = IF hfirst = NoSnap THEN attributes(hdict) ELSE hfirst
    /\ hread' = NoRead
    /\ UNCHANGED <<hnode, hdict>>
    /\ UNCHANGED <<deviceVars, enumVars, storageVars, statusVars, meshVars>>

HostIdle ==
    /\ hnode = <<>>
    /\ hdict = <<>>
    /\ hread = NoRead
    /\ hsnap = NoSnap
    /\ hfirst = NoSnap

\* a _Host as _HostStorage builds it from an Item node with the given children
HostInit(children) ==
    /\ hnode \in SeqsUpTo(children, MaxChildren)
    /\ hdict = process_host_node(<<>>, hnode)
    /\ hread = NoRead
    /\ hsnap = NoSnap
    /\ hfirst = NoSnap

(***************************************************************************)
(* _HostStorage, lines 257-275, and get_hosts_attributes, lines 197-213    *)
(***************************************************************************)
\* process_node on the _HostStorage: an Item node yields a new _Host, which
\* is appended to _hosts and processes the node's children; a node of any
\* other name is ignored.  The result is _hosts: one __dict__ per Item node.
RECURSIVE process_storage_node(_, _)
process_storage_node(hostList, nodes) ==
    IF nodes = <<>> THEN hostList
    ELSE LET node == Head(nodes) IN
         IF node.tag = "Item"
         THEN process_storage_node(
                  Append(hostList, process_host_node(<<>>, node.children)),
                  Tail(nodes))
         ELSE process_storage_node(hostList, Tail(nodes))

HostStorage(root) == process_storage_node(<<>>, root)

RECURSIVE CollectAttributes(_, _, _)
CollectAttributes(hostList, i, list) ==
    IF i > Len(hostList) THEN [ok |-> TRUE, exc |-> "none", list |-> list]
    ELSE LET a == attributes(hostList[i]) IN
         IF a.ok THEN CollectAttributes(hostList, i + 1, Append(list, a.attrs))
         ELSE [ok |-> FALSE, exc |-> a.exc, list |-> <<>>]

RECURSIVE CollectNonEmpty(_, _, _)
CollectNonEmpty(hostList, i, list) ==
    IF i > Len(hostList) THEN [ok |-> TRUE, exc |-> "none", list |-> list]
    ELSE LET a == attributes(hostList[i]) IN
         IF ~a.ok THEN [ok |-> FALSE, exc |-> a.exc, list |-> <<>>]
         ELSE IF hostList[i] = <<>> THEN CollectNonEmpty(hostList, i + 1, list)
         ELSE CollectNonEmpty(hostList, i + 1, Append(list, a.attrs))

hosts_attributes_SkipEmpty(hostList) == CollectNonEmpty(hostList, 1, <<>>)

\* hosts_attributes, lines 270-275: [host.attributes for host in self._hosts]
hosts_attributes(hostList) == CollectAttributes(hostList, 1, <<>>)

NoListing == [ok |-> FALSE, exc |-> "NoListing", list |-> <<>>]

\* get_hosts_attributes(), lines 210-213: the action call for the path (it
\* may fail), then the document behind it is fetched and processed
get_hosts_attributes ==
    /\ \E call \in {"ok"} \cup ActionFailures :
        listing' = IF call = "ok"
                   THEN hosts_attributes(HostStorage(document))
                   ELSE [ok |-> FALSE, exc |-> call, list |-> <<>>]
    /\ UNCHANGED document
    /\ UNCHANGED <<deviceVars, enumVars, hostVars, statusVars, meshVars>>

Child(tag, text) == [tag |-> tag, text |-> text]

ItemChildren ==
    {Child("HostName", TextPc), Child("Active", Text1), Child("Active", Text0),
     Child("Index", TextMaybe)}

DocumentNodes ==
    {[tag |-> "Item", children |-> c] : c \in SeqsUpTo(ItemChildren, 1)}
    \cup {[tag |-> "Other", children |-> <<>>]}

StorageIdle ==
    /\ document = <<>>
    /\ listing = NoListing

StorageInit ==
    /\ document \in SeqsUpTo(DocumentNodes, MaxNodes)
    /\ listing = NoListing

(***************************************************************************)
(* get_host_status, lines 83-94                                            *)
(***************************************************************************)
Macs == 1..NumMacs

\* what the device knows about a MAC address: the host with its NewActive
\* flag, or the failure of GetSpecificHostEntry
DeviceAnswers == {"active", "inactive"} \cup ActionFailures

\* get_specific_host_entry(mac_address), lines 68-73
get_specific_host_entry(mac) ==
    IF answers[mac] \in ActionFailures
    THEN [ok |-> FALSE, exc |-> answers[mac], value |-> [NewActive |-> FALSE]]
    ELSE [ok |-> TRUE, exc |-> "none",
          value |-> [NewActive |-> (answers[mac] = "active")]]

StatusCaught_All(exc) == TRUE

\* "except (FritzArgumentError, FritzLookUpError)", line 92
StatusCaught(exc) == exc \in {FritzArgumentError, FritzLookUpError}

NoStatus == [mac |-> 0, raised |-> "none", value |-> None]

\* get_host_status(mac_address)
get_host_status(mac) ==
    LET r == get_specific_host_entry(mac) IN
    IF r.ok THEN [mac |-> mac, raised |-> "none", value |-> PyBool(r.value.NewActive)]
    ELSE IF StatusCaught(r.exc) THEN [mac |-> mac, raised |-> "none", value |-> None]
    ELSE [mac |-> mac, raised |-> r.exc, value |-> None]

HostStatus ==
    /\ \E mac \in Macs : status' = get_host_status(mac)
    /\ UNCHANGED answers
    /\ UNCHANGED <<deviceVars, enumVars, hostVars, storageVars, meshVars>>

StatusIdle ==
    /\ answers = <<>>
    /\ status = NoStatus

StatusInit ==
    /\ answers \in [Macs -> DeviceAnswers]
    /\ status = NoStatus

(***************************************************************************)
(* get_mesh_topology, lines 130-144                                        *)
(***************************************************************************)
Address == "http://192.168.178.1"
Port == "49000"

MeshPaths == {"/meshlist.lua?sid=1", "/meshlist.lua?sid=2"}

HttpStatuses == {200, 403, 404, 500, 503}

Bodies == {"{}", "{\"nodes\":[]}", "{\"nodes\":[{\"uid\":\"n-1\"}]}"}

\* f"{self.fc.address}:{self.fc.port}{path}", line 139
Url(path) == <<Address, ":", Port, path>>

DigitChar(k) == CHOOSE c \in Digits : DigitValue(c) = k

\* str() of a non-negative int, as the f-string of line 142 formats it
RECURSIVE DecimalDigits(_)
DecimalDigits(n) ==
    IF n < 10 THEN <<DigitChar(n)>>
    ELSE DecimalDigits(n \div 10) \o <<DigitChar(n % 10)>>

\* the message of line 142
Message(status_code) ==
    <<"Error ">> \o DecimalDigits(status_code)
        \o <<": Device has no access to topology information.">>

ResponseOk_Below500(status_code) == status_code < 500

\* response.ok, line 141: false for the client and server error codes
ResponseOk(status_code) == ~(400 <= status_code /\ status_code < 600)

NoJson == [keys |-> {}, nodes |-> <<>>]

\* response.json(), line 144, on the bodies the device sends
json(text) ==
    CASE text = "{}" -> [keys |-> {}, nodes |-> <<>>]
      [] text = "{\"nodes\":[]}" -> [keys |-> {"nodes"}, nodes |-> <<>>]
      [] text = "{\"nodes\":[{\"uid\":\"n-1\"}]}" ->
             [keys |-> {"nodes"}, nodes |-> <<[uid |-> "n-1"]>>]

NoResponse == [status_code |-> 0, text |-> ""]
NoResult == [raised |-> "none", message |-> <<>>, kind |-> "none",
             text |-> "", json |-> NoJson]

Raise(exc, message) ==
    [raised |-> exc, message |-> message, kind |-> "none", text |-> "", json |-> NoJson]

\* lines 141-144
MeshReturn(raw, response) ==
    IF ~ResponseOk(response.status_code)
    THEN Raise(FritzActionError, Message(response.status_code))
    ELSE IF raw
    THEN [raised |-> "none", message |-> <<>>, kind |-> "text",
          text |-> response.text, json |-> NoJson]
    ELSE [raised |-> "none", message |-> <<>>, kind |-> "json",
          text |-> "", json |-> json(response.text)]

\* get_mesh_topology(raw), lines 137-138: the action call for the path
MeshCall ==
    /\ mpc = "idle"
    /\ \E raw \in BOOLEAN, call \in MeshPaths \cup ActionFailures :
        /\ mraw' = raw
        /\ mlog' = <<[op |-> "action", target |-> <<"X_AVM-DE_GetMeshListPath">>]>>
        /\ mresponse' = NoResponse
        /\ IF call \in ActionFailures
           THEN /\ mpc' = "done"
                /\ mpath' = ""
                /\ mresult' = Raise(call, <<>>)
           ELSE /\ mpc' = "called"
                /\ mpath' = call
                /\ mresult' = NoResult
    /\ UNCHANGED <<deviceVars, enumVars, hostVars, storageVars, statusVars>>

\* lines 139-144: the GET of the url and what becomes of the response
MeshGet ==
    /\ mpc = "called"
    /\ \E status_code \in HttpStatuses, text \in Bodies :
        LET response == [status_code |-> status_code, text |-> text] IN
        /\ mresponse' = response
        /\ mlog' = Append(mlog, [op |-> "GET", target |-> Url(mpath)])
        /\ mresult' = MeshReturn(mraw, response)
    /\ mpc' = "done"
    /\ UNCHANGED <<mraw, mpath>>
    /\ UNCHANGED <<deviceVars, enumVars, hostVars, storageVars, statusVars>>

\* the caller has the outcome; the next call may start
MeshFinish ==
    /\ mpc = "done"
    /\ mpc' = "idle"
    /\ UNCHANGED <<mraw, mpath, mlog, mresponse, mresult>>
    /\ UNCHANGED <<deviceVars, enumVars, hostVars, storageVars, statusVars>>

MeshIdle ==
    /\ mpc = "idle"
    /\ mraw = FALSE
    /\ mpath = ""
    /\ mlog = <<>>
    /\ mresponse = NoResponse
    /\ mresult = NoResult

DeviceIdle ==
    /\ hosts = <<>>
    /\ failAt = 0
    /\ failKind = "none"

EnumIdle ==
    /\ mode = "idle"
    /\ index = 0
    /\ result = <<>>
    /\ delivered = <<>>
    /\ outcome = "none"
    /\ error = "none"
    /\ fetched = <<>>
    /\ pulls = 0
    /\ lastInfo = NoList

DeviceInit(entries) ==
    /\ hosts \in SeqsUpTo(entries, MaxHosts)
    /\ failKind \in {"none"} \cup ActionFailures
    /\ failAt \in IF Fails THEN 0..Len(hosts) ELSE {0}

(***************************************************************************)
(* Specifications                                                          *)
(***************************************************************************)
\* the enumerations, on a device whose entries carry the seven out-arguments
\* of GetGenericHostEntry
Init ==
    /\ DeviceInit(CompleteEntries)
    /\ EnumIdle /\ HostIdle /\ StorageIdle /\ StatusIdle /\ MeshIdle

Next == StartRaw \/ StartInfo \/ StartActive \/ NextRaw \/ NextRawFinished
        \/ InfoStep \/ Finish

Spec == Init /\ [][Next]_vars

\* the enumerations, on a device whose entries may lack NewActive
InitPartial ==
    /\ DeviceInit(CompleteEntries \cup PartialEntries)
    /\ EnumIdle /\ HostIdle /\ StorageIdle /\ StatusIdle /\ MeshIdle

SpecPartial == InitPartial /\ [][Next]_vars

\* one _Host: attribute reads and snapshots
HostTags == {"Index", "X_AVM-DE_Guest", "HostName"}
HostChildren == {Child(t, x) : t \in HostTags, x \in {Text1, TextMaybe}}

InitHost ==
    /\ HostInit(HostChildren)
    /\ DeviceIdle /\ EnumIdle /\ StorageIdle /\ StatusIdle /\ MeshIdle

NextHost == (\E n \in ProbeNames : ReadAttribute(n)) \/ ReadAttributes

SpecHost == InitHost /\ [][NextHost]_vars

\* one _Host: the snapshot of what the node populated, over every typed name
CoerceTags ==
    {"Index", "X_AVM-DE_Port", "X_AVM-DE_Speed", "Active",
     "X_AVM-DE_UpdateAvailable", "X_AVM-DE_Guest", "X_AVM-DE_VPN",
     "X_AVM-DE_Disallow", "HostName"}
CoerceTexts == {Text1, Text0, Text42, TextMinus3, TextPadded7, TextMaybe, TextEmpty}
CoerceChildren == {Child(t, x) : t \in CoerceTags, x \in CoerceTexts}

InitCoerce ==
    /\ HostInit(CoerceChildren)
    /\ DeviceIdle /\ EnumIdle /\ StorageIdle /\ StatusIdle /\ MeshIdle

NextCoerce == ReadAttributes

SpecCoerce == InitCoerce /\ [][NextCoerce]_vars

\* get_hosts_attributes
InitStorage ==
    /\ StorageInit
    /\ DeviceIdle /\ EnumIdle /\ HostIdle /\ StatusIdle /\ MeshIdle

NextStorage == get_hosts_attributes

SpecStorage == InitStorage /\ [][NextStorage]_vars

\* get_host_status
InitStatus ==
    /\ StatusInit
    /\ DeviceIdle /\ EnumIdle /\ HostIdle /\ StorageIdle /\ MeshIdle

NextStatus == HostStatus

SpecStatus == InitStatus /\ [][NextStatus]_vars

\* get_mesh_topology
InitMesh ==
    /\ MeshIdle
    /\ DeviceIdle /\ EnumIdle /\ HostIdle /\ StorageIdle /\ StatusIdle

NextMesh == MeshCall \/ MeshGet \/ MeshFinish

SpecMesh == InitMesh /\ [][NextMesh]_vars

(***************************************************************************)
(* Properties of the enumerations                                          *)
(***************************************************************************)
HostRecordKeys == {"ip", "name", "mac", "status", "interface_type",
                   "address_source", "lease_time_remaining"}

\* rec is the entry renamed to the seven HostRecord keys
RenamedFrom(rec, entry) ==
    /\ DOMAIN rec = HostRecordKeys
    /\ rec.ip = entry.NewIPAddress
    /\ rec.name = entry.NewHostName
    /\ rec.mac = entry.NewMACAddress
    /\ rec.status = entry.NewActive
    /\ rec.interface_type = entry.NewInterfaceType
    /\ rec.address_source = entry.NewAddressSource
    /\ rec.lease_time_remaining = entry.NewLeaseTimeRemaining

\* list holds the renamed entries 0..k-1 of the device, in index order
RenamedPrefix(list, k) ==
    /\ Len(list) = k
    /\ \A i \in 1..k : RenamedFrom(list[i], hosts[i])

\* C1: on a device that answers indices 0..n-1 and signals IndexError at n,
\* an enumeration never raises, never runs past index n, and once it has
\* terminated it has produced exactly the n records in index order: the
\* fetched entries themselves in raw mode, the renamed entries in mapped mode.
C1_EnumerationYieldsAll ==
    (~Fails /\ mode # "idle") =>
        /\ outcome # "raised"
        /\ index <= Len(hosts)
        /\ Len(fetched) <= Len(hosts) + 1
        /\ mode = "raw" => delivered = SubSeq(hosts, 1, index)
        /\ (mode = "raw" /\ outcome = "done") => delivered = hosts
        /\ (mode = "info" /\ outcome = "done") =>
               RenamedPrefix(delivered, Len(hosts))

C1_Witness ==
    /\ ~Fails
    /\ mode = "info"
    /\ outcome = "done"
    /\ Len(delivered) = 2
    /\ delivered[1].mac # delivered[2].mac

\* C2 (original): after a failure other than IndexError at index k, the
\* caller has received exactly the k records of indices 0..k-1, in raw mode
\* and in mapped mode alike, and the failure left the method unchanged.
C2_Original ==
    (Fails /\ mode # "idle") =>
        /\ outcome # "done"
        /\ outcome = "raised" =>
            /\ error = failKind
            /\ mode = "raw" => delivered = SubSeq(hosts, 1, failAt)
            /\ mode \in {"info", "active"} => RenamedPrefix(delivered, failAt)

\* C2 (amended): the failure at index k propagates unchanged and the
\* enumeration never ends normally nor delivers a record for index k; the
\* raw generator has delivered exactly the k entries 0..k-1 before it, while
\* get_hosts_info (and get_active_hosts) had collected the k records in its
\* local list and delivers none of them to the caller.
C2_FailurePropagates ==
    (Fails /\ mode # "idle") =>
        /\ outcome # "done"
        /\ Len(delivered) <= failAt
        /\ outcome = "raised" =>
            /\ error = failKind
            /\ mode = "raw" => delivered = SubSeq(hosts, 1, failAt)
            /\ mode \in {"info", "active"} =>
                   /\ delivered = <<>>
                   /\ RenamedPrefix(result, failAt)

C2_Witness ==
    /\ Fails
    /\ failAt = 2
    /\ mode = "info"
    /\ outcome = "raised"
    /\ error = FritzActionError
    /\ Len(result) = 2

\* C10: within one enumeration the fetches carry the indices 0, 1, 2, ...
\* in order, whatever an earlier enumeration left behind; every fetch but
\* the last succeeded and nothing is fetched after a failing fetch; a
\* completed enumeration of n hosts has made n+1 fetches; the raw generator
\* has made exactly as many fetches as items were pulled from it.
C10_FetchOrder ==
    mode # "idle" =>
        /\ \A j \in 1..Len(fetched) : fetched[j] = j - 1
        /\ outcome = "running" =>
            /\ index = Len(fetched)
            /\ \A j \in 1..Len(fetched) : get_generic_host_entry(j - 1).ok
        /\ outcome \in {"done", "raised"} =>
            /\ Len(fetched) = index + 1
            /\ \A j \in 1..index : get_generic_host_entry(j - 1).ok
            /\ ~get_generic_host_entry(index).ok
        /\ (outcome = "done" /\ ~Fails) => Len(fetched) = Len(hosts) + 1
        /\ (mode = "raw" /\ outcome = "running") =>
            /\ Len(delivered) = Len(fetched)
            /\ pulls = Len(fetched)
        /\ mode = "raw" => Len(fetched) <= pulls

\* a second enumeration, after a first one that ran to the end, has fetched
\* indices 0 and 1 and is still running
C10_Witness ==
    /\ lastInfo # NoList
    /\ Len(lastInfo) = 3
    /\ mode = "raw"
    /\ outcome = "running"
    /\ fetched = <<0, 1>>
    /\ pulls = 2

StatusTrue(rec) == rec.status = TRUE

\* index of the first entry the dict literal cannot rename, 0 if none
FirstPartial ==
    LET bad == {i \in 1..Len(hosts) : ~HasInfoKeys(hosts[i])} IN
    IF bad = {} THEN 0 ELSE CHOOSE i \in bad : \A j \in bad : i <= j

\* C3 (original): get_active_hosts returns the records of get_hosts_info
\* whose status is true, and an entry whose NewActive was never populated
\* counts as inactive and is left out without an error.
C3_Original ==
    (mode = "active" /\ ~Fails) =>
        /\ outcome # "raised"
        /\ outcome = "done" =>
            /\ \A i \in 1..Len(delivered) : delivered[i].status = TRUE
            /\ Len(delivered) =
                 Cardinality({i \in 1..Len(hosts) :
                                 "NewActive" \in DOMAIN hosts[i]
                                 /\ hosts[i].NewActive = TRUE})

\* C3 (amended): get_active_hosts returns exactly the records of
\* get_hosts_info (same device state) whose status is true, in the same
\* order; an entry whose NewActive was never populated makes get_hosts_info,
\* and with it get_active_hosts, raise KeyError when the walk reaches it,
\* and nothing is returned.
C3_ActiveHostsFilter ==
    /\ (mode = "active" /\ outcome = "done") =>
        /\ \A i \in 1..Len(delivered) : delivered[i].status = TRUE
        /\ lastInfo # NoList => delivered = SelectSeq(lastInfo, StatusTrue)
        /\ delivered = SelectSeq(result, StatusTrue)
        /\ RenamedPrefix(result, Len(hosts))
    /\ (mode \in {"info", "active"} /\ outcome # "running" /\ FirstPartial # 0
        /\ (~Fails \/ failAt >= FirstPartial)) =>
        /\ outcome = "raised"
        /\ error = KeyError
        /\ delivered = <<>>
        /\ Len(fetched) = FirstPartial

C3_Witness ==
    /\ mode = "active"
    /\ outcome = "done"
    /\ lastInfo # NoList
    /\ Len(lastInfo) = 3
    /\ Len(delivered) = 2
    /\ delivered[1].mac # delivered[2].mac

(***************************************************************************)
(* Properties of get_host_status                                           *)
(***************************************************************************)
\* C4: get_host_status returns None, without raising, exactly when the
\* lookup by MAC fails with an argument error or a lookup error; a lookup
\* that succeeds yields the host's active flag, so an inactive host yields
\* False and never None; any other failure of the lookup reaches the caller.
C4_HostStatus ==
    status # NoStatus =>
        LET a == answers[status.mac] IN
        /\ (status.raised = "none" /\ status.value = None)
               <=> a \in {FritzArgumentError, FritzLookUpError}
        /\ a = "active" => (status.raised = "none" /\ status.value = PyBool(TRUE))
        /\ a = "inactive" => (status.raised = "none" /\ status.value = PyBool(FALSE))
        /\ a = FritzActionError => status.raised = FritzActionError

C4_Witness ==
    /\ status # NoStatus
    /\ answers[status.mac] = "inactive"
    /\ status.value = PyBool(FALSE)
    /\ \E m \in Macs : answers[m] = FritzLookUpError
    /\ \E m \in Macs : answers[m] = FritzActionError

(***************************************************************************)
(* Properties of _Host                                                     *)
(***************************************************************************)
IntNames == {"Index", "X_AVM-DE_Port", "X_AVM-DE_Speed"}
BoolNames == {"Active", "X_AVM-DE_UpdateAvailable", "X_AVM-DE_Guest",
              "X_AVM-DE_VPN", "X_AVM-DE_Disallow"}
NumericTexts == {Text1, Text0, Text42, TextMinus3, TextPadded7}

NumberIn(raw) ==
    CASE raw = Text1 -> 1 [] raw = Text0 -> 0 [] raw = Text42 -> 42
      [] raw = TextMinus3 -> 0 - 3 [] raw = TextPadded7 -> 7

\* the text of the last child of the node with this tag
FinalRaw(node, n) ==
    LET at == {i \in 1..Len(node) : node[i].tag = n}
        last == CHOOSE i \in at : \A j \in at : j <= i
    IN node[last].text

\* the names the node populated with text that is no number, under a typed name
Malformed(node) ==
    {n \in Populated(node) \cap (IntNames \cup BoolNames) :
        FinalRaw(node, n) \notin NumericTexts}

\* C5: a read of a name the node never populated returns the unset default
\* without raising, and a never-populated integer or boolean name counts as
\* 0 or false, so that attributes() still succeeds after such reads.
C5_Original ==
    /\ (hread # NoRead /\ hread.name \notin Populated(hnode)) => hread.value = None
    /\ (hsnap # NoSnap /\ Malformed(hnode) = {}) =>
        /\ hsnap.ok
        /\ \A n \in QueriedOnly \cap IntNames : hsnap.attrs[n] = PyInt(0)
        /\ \A n \in QueriedOnly \cap BoolNames : hsnap.attrs[n] = PyBool(FALSE)

\* C6: reads do not change the record: a snapshot taken after any reads has
\* exactly the names the node populated, with the values of the first
\* snapshot, and succeeds if the first one did.
C6_Original ==
    hsnap # NoSnap =>
        /\ hfirst.ok => hsnap.ok
        /\ hsnap.ok =>
            /\ DOMAIN hsnap.attrs = Populated(hnode)
            /\ hfirst.ok =>
                 \A n \in Populated(hnode) : hsnap.attrs[n] = hfirst.attrs[n]

\* C7: the snapshot of a record holds every populated name coerced by its
\* bucket: a boolean name holding "1" is true and holding "0" is false, an
\* integer name is its integer value, any other name keeps its raw text;
\* and a typed name holding text that is no number makes attributes() fail
\* with ValueError.
C7_CoercionByBucket ==
    hsnap # NoSnap =>
        /\ Malformed(hnode) # {} => (~hsnap.ok /\ hsnap.exc = ValueError)
        /\ Malformed(hnode) = {} =>
            /\ hsnap.ok
            /\ DOMAIN hsnap.attrs = Populated(hnode)
            /\ \A n \in Populated(hnode) :
                LET raw == FinalRaw(hnode, n) IN
                /\ n \in BoolNames =>
                    /\ raw = Text1 => hsnap.attrs[n] = PyBool(TRUE)
                    /\ raw = Text0 => hsnap.attrs[n] = PyBool(FALSE)
                    /\ hsnap.attrs[n].kind = "bool"
                /\ n \in IntNames => hsnap.attrs[n] = PyInt(NumberIn(raw))
                /\ n \notin IntNames \cup BoolNames => hsnap.attrs[n] = Str(raw)

C7_Witness ==
    /\ hsnap # NoSnap
    /\ hsnap.ok
    /\ hnode = <<Child("X_AVM-DE_Guest", Text1), Child("X_AVM-DE_Speed", Text42)>>
    /\ hsnap.attrs["X_AVM-DE_Guest"] = PyBool(TRUE)
    /\ hsnap.attrs["X_AVM-DE_Speed"] = PyInt(42)

(***************************************************************************)
(* Properties of get_mesh_topology                                         *)
(***************************************************************************)
StatusDigits(status_code) ==
    CASE status_code = 403 -> <<"4", "0", "3">>
      [] status_code = 404 -> <<"4", "0", "4">>
      [] status_code = 500 -> <<"5", "0", "0">>
      [] status_code = 503 -> <<"5", "0", "3">>

Carries(message, part) ==
    \E i \in 1..Len(message) : SubSeq(message, i, i + Len(part) - 1) = part

\* C8: get_mesh_topology makes one action call and then, with the path it
\* returned, one GET of the url built from that path; a response that is
\* not a success raises FritzActionError with the status code in the
\* message and returns no body, whatever raw is; a success returns the text
\* of the body when raw is true and the parsed body when raw is false.
C8_MeshTopology ==
    /\ Len(mlog) <= 2
    /\ mpc # "idle" => Len(mlog) >= 1
    /\ Len(mlog) >= 1 => mlog[1].op = "action"
    /\ Len(mlog) = 2 =>
        /\ mlog[2].op = "GET"
        /\ mpath \in MeshPaths
        /\ mlog[2].target = <<Address, ":", Port, mpath>>
    /\ mpc = "called" => Len(mlog) = 1
    /\ (mpc = "done" /\ Len(mlog) = 1) => mresult.raised \in ActionFailures
    /\ (mpc = "done" /\ Len(mlog) = 2) =>
        IF mresponse.status_code \in {403, 404, 500, 503}
        THEN /\ mresult.raised = FritzActionError
             /\ Carries(mresult.message, StatusDigits(mresponse.status_code))
             /\ mresult.kind = "none"
        ELSE /\ mresult.raised = "none"
             /\ mraw => (mresult.kind = "text" /\ mresult.text = mresponse.text)
             /\ ~mraw =>
                 /\ mresult.kind = "json"
                 /\ mresponse.text = "{}" => mresult.json.keys = {}
                 /\ mresponse.text # "{}" => mresult.json.keys = {"nodes"}
                 /\ mresponse.text = "{\"nodes\":[{\"uid\":\"n-1\"}]}"
                        <=> Len(mresult.json.nodes) = 1

C8_Witness ==
    /\ mpc = "done"
    /\ ~mraw
    /\ mresponse.status_code = 500
    /\ mresult.raised = FritzActionError
    /\ Carries(mresult.message, <<"5", "0", "0">>)

(***************************************************************************)
(* Properties of get_hosts_attributes                                      *)
(***************************************************************************)
IsItem(node) == node.tag = "Item"

\* C9: when get_hosts_attributes returns, the list holds one mapping per
\* Item node of the document, in document order, none skipped or merged; an
\* Item node without children gives an empty mapping; a document without
\* Item nodes gives the empty list and no error.
C9_OneMappingPerItem ==
    LET items == SelectSeq(document, IsItem) IN
    /\ (listing # NoListing /\ listing.ok) =>
        /\ Len(listing.list) = Len(items)
        /\ \A i \in 1..Len(items) :
            LET children == items[i].children
                attrs == listing.list[i]
            IN /\ DOMAIN attrs = Populated(children)
               /\ children = <<>> => attrs = EmptyDict
               /\ "HostName" \in DOMAIN attrs =>
                      attrs["HostName"] = Str(FinalRaw(children, "HostName"))
               /\ "Active" \in DOMAIN attrs =>
                      attrs["Active"] = PyBool(FinalRaw(children, "Active") = Text1)
    /\ (listing # NoListing /\ listing.exc \notin ActionFailures) =>
        /\ items = <<>> => (listing.ok /\ listing.list = <<>>)
        /\ listing.ok <=> \A i \in 1..Len(items) : Malformed(items[i].children) = {}

C9_Witness ==
    /\ listing # NoListing
    /\ listing.ok
    /\ Len(document) = 3
    /\ document[2].tag = "Other"
    /\ document[1].children = <<>>
    /\ Len(listing.list) = 2
    /\ listing.list[1] = EmptyDict
    /\ DOMAIN listing.list[2] = {"Active"}

====
